---- MODULE Spec2Model ----
(***************************************************************************)
(* drawinglayer::attribute::FillGradientAttribute                          *)
(* (drawinglayer/source/attribute/fillgradientattribute.cxx).              *)
(*                                                                         *)
(* Four state machines over one set of definitions:                        *)
(*   Spec      the explicit ImpFillGradientAttribute constructor, run      *)
(*             statement by statement over its colour-step band;           *)
(*   SpecPair  two instances explicitly constructed and compared;          *)
(*   SpecAttr  FillGradientAttribute handles: default and explicit         *)
(*             construction, copy, copy/move assignment, comparison;       *)
(*   SpecInit  threads racing through the first call of the default        *)
(*             constructor (the function-local static of                   *)
(*             theGlobalDefault).                                          *)
(*                                                                         *)
(* Offsets are doubles in the source.  They are modelled on an integer     *)
(* grid: 0.0 is 0, 1.0 is One, and two offsets are equal "within epsilon"  *)
(* when they are at most Eps grid units apart.  Comparisons by operator<   *)
(* (std::sort) are exact; only basegfx::fTools is tolerant.                *)
(***************************************************************************)
EXTENDS Integers, Sequences, FiniteSets

(* ------------------------------ bounds -------------------------------- *)

\* longest raw-stop list handed to the constructor
MaxRaw == 3

\* the grid value of offset 1.0 (line 97, line 135)
One == 6

\* the tolerance of basegfx::fTools, in grid units
Eps == 1

\* the offsets a caller may supply: below 0, 0, within epsilon of 0,
\* strictly inside, within epsilon of 1, 1 (a caller may also exceed 1,
\* which moreOrEqual treats exactly as it treats 1)
Offsets == (0 - 1) .. One

\* basegfx::BColor values; "black" is BColor(), the default-constructed one
Colors == {"black", "red"}

\* const basegfx::ColorSteps* : nullptr, or a pointer to a list of steps
Null == [null |-> TRUE, steps |-> <<>>]

PointerTo(steps) == [null |-> FALSE, steps |-> steps]

\* nullptr != pColorSteps && !pColorSteps->empty()  (line 60)
HasSteps(p) == ~p.null /\ p.steps # <<>>

(* ----------------------------- ColorStep ------------------------------ *)

ColorStep(o, c) == [offset |-> o, color |-> c]

ColorSteps == [offset : Offsets, color : Colors]

\* ColorStep::operator< : by offset alone, exactly
StepLess(a, b) == a.offset < b.offset

(* --------------------------- basegfx::fTools -------------------------- *)

Abs(x) == IF x < 0 THEN 0 - x ELSE x

equal(a, b) == Abs(a - b) <= Eps

lessOrEqual(a, b) == a < b \/ equal(a, b)

moreOrEqual(a, b) == a > b \/ equal(a, b)

(* ------------------------------ std::sort ----------------------------- *)
(* std::sort orders by operator< and leaves the relative order of          *)
(* equivalent elements unspecified.  It sees offsets only, so what it does *)
(* with ties is a property of the build, the same at every call: ties      *)
(* either keep the order they were listed in or come out reversed.         *)

TiePolicies == {"listed", "reversed"}

RECURSIVE SortInsert(_, _, _)
SortInsert(s, x, ties) ==
    IF s = <<>> THEN <<x>>
    ELSE LET l == s[Len(s)] IN
         IF StepLess(x, l) \/ (ties = "reversed" /\ ~StepLess(l, x))
         THEN Append(SortInsert(SubSeq(s, 1, Len(s) - 1), x, ties), l)
         ELSE Append(s, x)

RECURSIVE StdSort(_, _)
StdSort(s, ties) ==
    IF s = <<>> THEN <<>>
    ELSE SortInsert(StdSort(SubSeq(s, 1, Len(s) - 1), ties), s[Len(s)], ties)

\* a plausible slip: the sort left out
SortTailUnsorted(v, ties) == v

\* a plausible slip: the sort starts at begin() instead of begin() + 1
SortTailFromBegin(v, ties) == StdSort(v, ties)

\* std::sort(maColorSteps.begin() + 1, maColorSteps.end())
SortTail(v, ties) == <<v[1]>> \o StdSort(Tail(v), ties)

(* ------------------ ImpFillGradientAttribute constructor -------------- *)

\* the loop's state: the band, its two heads and the colour flag
Heads(band, c, n, same) == [band |-> band, curr |-> c, next |-> n, same |-> same]

\* lines 64-76: append the given steps, sort the tail, set up the heads
Integrate(v, raw, start, end, ties) ==
    Heads(SortTail(v \o raw, ties), 0, 1, start = end)

\* plausible slips of the loop body: the duplicate test left out, the
\* colour flag not updated, the later duplicate kept, the entry not moved
LoopBodyNoEqual(h, start) ==
    LET fNextOffset == h.band[h.next + 1].offset IN
    IF lessOrEqual(fNextOffset, 0) THEN [h EXCEPT !.next = @ + 1]
    ELSE IF moreOrEqual(fNextOffset, One) THEN [h EXCEPT !.next = @ + 1]
    ELSE LET c == h.curr + 1
             b == [h.band EXCEPT ![c + 1] = h.band[h.next + 1]]
         IN Heads(b, c, h.next + 1, h.same /\ b[c + 1].color = start)

LoopBodyNoFlag(h, start) ==
    LET fNextOffset == h.band[h.next + 1].offset IN
    IF lessOrEqual(fNextOffset, 0) THEN [h EXCEPT !.next = @ + 1]
    ELSE IF moreOrEqual(fNextOffset, One) THEN [h EXCEPT !.next = @ + 1]
    ELSE IF equal(fNextOffset, h.band[h.curr + 1].offset)
         THEN [h EXCEPT !.next = @ + 1]
    ELSE LET c == h.curr + 1
             b == [h.band EXCEPT ![c + 1] = h.band[h.next + 1]]
         IN Heads(b, c, h.next + 1, h.same)

LoopBodyLastWins(h, start) ==
    LET fNextOffset == h.band[h.next + 1].offset IN
    IF lessOrEqual(fNextOffset, 0) THEN [h EXCEPT !.next = @ + 1]
    ELSE IF moreOrEqual(fNextOffset, One) THEN [h EXCEPT !.next = @ + 1]
    ELSE IF equal(fNextOffset, h.band[h.curr + 1].offset)
         THEN [h EXCEPT !.next = @ + 1,
                        !.band = [@ EXCEPT ![h.curr + 1] = h.band[h.next + 1]]]
    ELSE LET c == h.curr + 1
             b == [h.band EXCEPT ![c + 1] = h.band[h.next + 1]]
         IN Heads(b, c, h.next + 1, h.same /\ b[c + 1].color = start)

LoopBodyNoMove(h, start) ==
    LET fNextOffset == h.band[h.next + 1].offset IN
    IF lessOrEqual(fNextOffset, 0) THEN [h EXCEPT !.next = @ + 1]
    ELSE IF moreOrEqual(fNextOffset, One) THEN [h EXCEPT !.next = @ + 1]
    ELSE IF equal(fNextOffset, h.band[h.curr + 1].offset)
         THEN [h EXCEPT !.next = @ + 1]
    ELSE LET c == h.curr + 1
         IN Heads(h.band, c, h.next + 1, h.same /\ h.band[c + 1].color = start)

\* lines 84-114: one pass of the for loop (indices are 0-based in the
\* source, sequences 1-based here: maColorSteps[i] is band[i + 1])
LoopBody(h, start) ==
    LET fNextOffset == h.band[h.next + 1].offset IN
    IF lessOrEqual(fNextOffset, 0) THEN [h EXCEPT !.next = @ + 1]
    ELSE IF moreOrEqual(fNextOffset, One) THEN [h EXCEPT !.next = @ + 1]
    ELSE IF equal(fNextOffset, h.band[h.curr + 1].offset)
         THEN [h EXCEPT !.next = @ + 1]
    ELSE LET c == h.curr + 1
             b == IF c # h.next
                  THEN [h.band EXCEPT ![c + 1] = h.band[h.next + 1]]
                  ELSE h.band
         IN Heads(b, c, h.next + 1, h.same /\ b[c + 1].color = start)

\* a plausible slip: the end colour is appended only when it differs
FinishEndOnlyIfDifferent(h, start, end) ==
    IF h.same THEN SubSeq(h.band, 1, 1)
    ELSE LET kept == SubSeq(h.band, 1, h.curr + 1) IN
         IF start # end THEN Append(kept, ColorStep(One, end)) ELSE kept

\* lines 117-137: collapse to the start colour, or cut the band to the
\* kept entries and append the end colour
Finish(h, start, end) ==
    IF h.same THEN SubSeq(h.band, 1, 1)
    ELSE LET curr == h.curr + 1
             kept == IF curr # Len(h.band) THEN SubSeq(h.band, 1, curr)
                     ELSE h.band
         IN IF curr > 1 \/ start # end
            THEN Append(kept, ColorStep(One, end))
            ELSE kept

\* lines 140-146: no colour steps given
NoColorSteps(v, start, end) ==
    IF start # end THEN Append(v, ColorStep(One, end)) ELSE v

\* line 82: the for loop, run to its end
RECURSIVE RunLoop(_, _)
RunLoop(h, start) ==
    IF h.next < Len(h.band) THEN RunLoop(LoopBody(h, start), start) ELSE h

\* lines 57-147: the colour steps the constructor stores
BuildColorSteps(start, end, raw, ties) ==
    LET v == <<ColorStep(0, start)>> IN
    IF HasSteps(raw)
    THEN Finish(RunLoop(Integrate(v, raw.steps, start, end, ties), start), start, end)
    ELSE NoColorSteps(v, start, end)

(* ----------------- Spec: the constructor, step by step ---------------- *)

VARIABLES
    \* the build: how its std::sort orders equivalent elements
    sortTies,
    \* Spec: the constructor's arguments, member and locals
    rStartColor, rEndColor, pColorSteps,
    maColorSteps, curr, next, bAllTheSameColor, pc,
    \* SpecAttr, SpecPair: the heap of shared implementations, the static
    \* SINGLETON, each handle's pointer, and what the call just made returned
    heap, SINGLETON, mpFillGradientAttribute, ret,
    \* how each handle came by what it holds (history, not program state)
    origin,
    \* SpecInit: the guard of the static, the memory behind it, and each
    \* thread's position, handle and what it saw through the handle
    guard, staticPimpl, staticImpl, tpc, tHandle, tSeen, nConstructed

ctorVars == <<rStartColor, rEndColor, pColorSteps,
              maColorSteps, curr, next, bAllTheSameColor, pc>>

attrVars == <<heap, SINGLETON, mpFillGradientAttribute, ret, origin>>

onceVars == <<guard, staticPimpl, staticImpl, tpc, tHandle, tSeen, nConstructed>>

vars == <<sortTies, ctorVars, attrVars, onceVars>>

args == <<rStartColor, rEndColor, pColorSteps, sortTies, attrVars, onceVars>>

RawLists == UNION {[1..n -> ColorSteps] : n \in 0..MaxRaw}

CtorEntry ==
    /\ rStartColor \in Colors
    /\ rEndColor \in Colors
    /\ pColorSteps \in {PointerTo(s) : s \in RawLists} \cup {Null}
    /\ maColorSteps = <<>>
    /\ curr = 0
    /\ next = 0
    /\ bAllTheSameColor = FALSE
    /\ pc = "entry"

\* no constructor call under way
CtorIdle ==
    /\ rStartColor = "black"
    /\ rEndColor = "black"
    /\ pColorSteps = Null
    /\ maColorSteps = <<>>
    /\ curr = 0
    /\ next = 0
    /\ bAllTheSameColor = FALSE
    /\ pc = "idle"

\* line 57
EmplaceStart ==
    /\ pc = "entry"
    /\ maColorSteps' = <<ColorStep(0, rStartColor)>>
    /\ pc' = "branch"
    /\ UNCHANGED <<args, curr, next, bAllTheSameColor>>

\* lines 60-76
IntegrateSteps ==
    /\ pc = "branch"
    /\ HasSteps(pColorSteps)
    /\ LET h == Integrate(maColorSteps, pColorSteps.steps, rStartColor, rEndColor, sortTies)
       IN /\ maColorSteps' = h.band
          /\ curr' = h.curr
          /\ next' = h.next
          /\ bAllTheSameColor' = h.same
    /\ pc' = "loop"
    /\ UNCHANGED args

\* lines 82-115
LoopStep ==
    /\ pc = "loop"
    /\ next < Len(maColorSteps)
    /\ LET h == LoopBody(Heads(maColorSteps, curr, next, bAllTheSameColor), rStartColor)
       IN /\ maColorSteps' = h.band
          /\ curr' = h.curr
          /\ next' = h.next
          /\ bAllTheSameColor' = h.same
    /\ UNCHANGED <<args, pc>>

\* lines 117-137
FinishSteps ==
    /\ pc = "loop"
    /\ ~(next < Len(maColorSteps))
    /\ maColorSteps' = Finish(Heads(maColorSteps, curr, next, bAllTheSameColor),
                              rStartColor, rEndColor)
    /\ pc' = "done"
    /\ UNCHANGED <<args, curr, next, bAllTheSameColor>>

\* lines 139-146
NoSteps ==
    /\ pc = "branch"
    /\ ~HasSteps(pColorSteps)
    /\ maColorSteps' = NoColorSteps(maColorSteps, rStartColor, rEndColor)
    /\ pc' = "done"
    /\ UNCHANGED <<args, curr, next, bAllTheSameColor>>

\* lines 171-178
hasSingleColor(steps) == Len(steps) < 2

(* ------------------- FillGradientAttribute handles -------------------- *)

\* FillGradientAttribute objects in scope at once
NumHandles == 2

Handles == 1..NumHandles

\* heap cells: one per handle and one for the static SINGLETON
Addrs == 1..(NumHandles + 1)

\* cow_wrapper's m_pimpl after its resource was moved away
NoAddr == 0

ImpValue(style, border, offsetX, offsetY, angle, steps, n) ==
    [meStyle |-> style, mfBorder |-> border, mfOffsetX |-> offsetX,
     mfOffsetY |-> offsetY, mfAngle |-> angle, maColorSteps |-> steps,
     mnSteps |-> n]

\* lines 37-147: the explicit constructor, a the arguments of the call
ImpExplicit(a, ties) ==
    ImpValue(a.eStyle, a.fBorder, a.fOffsetX, a.fOffsetY, a.fAngle,
             BuildColorSteps(a.rStartColor, a.rEndColor, a.pColorSteps, ties),
             a.nSteps)

\* lines 149-160: the default constructor (BColor() is black)
ImpDefault ==
    ImpValue("Linear", 0, 0, 0, 0, <<ColorStep(0, "black")>>, 0)

\* std::vector<ColorStep>::operator== : same size, each step's offset and
\* colour exactly equal
StepsEqual(s, t) ==
    /\ Len(s) = Len(t)
    /\ \A i \in DOMAIN s : s[i].offset = t[i].offset /\ s[i].color = t[i].color

\* lines 180-189: ImpFillGradientAttribute::operator==
ImpEquals(x, y) ==
    /\ x.meStyle = y.meStyle
    /\ x.mfBorder = y.mfBorder
    /\ x.mfOffsetX = y.mfOffsetX
    /\ x.mfOffsetY = y.mfOffsetY
    /\ x.mfAngle = y.mfAngle
    /\ StepsEqual(x.maColorSteps, y.maColorSteps)
    /\ x.mnSteps = y.mnSteps

FreeCell == [live |-> FALSE, value |-> ImpDefault]

Cell(v) == [live |-> TRUE, value |-> v]

\* operator new: the lowest free cell
FreshAddr(hp) == CHOOSE a \in Addrs : ~hp[a].live /\ \A b \in 1..(a - 1) : hp[b].live

\* the cells in use: the static's and those a handle points to
InUse(mp, sing) ==
    {a \in Addrs : a = sing \/ \E h \in Handles : mp[h].alive /\ mp[h].pimpl = a}

\* The state an operation leaves.  cow_wrapper::release deletes a cell that
\* no handle and not the static points to any more.  Addresses are only ever
\* compared for equality, so the cells in use are then numbered in a fixed
\* order (the static's first, the others by the first handle that points to
\* them): states that differ in nothing but addresses are one state.
Settle(hp, mp, sing) ==
    LET used == InUse(mp, sing)
        key(a) == IF a = sing THEN 0
                  ELSE CHOOSE h \in Handles :
                         /\ mp[h].alive /\ mp[h].pimpl = a
                         /\ \A k \in 1..(h - 1) : ~(mp[k].alive /\ mp[k].pimpl = a)
        at(a) == IF a = NoAddr THEN NoAddr
                 ELSE Cardinality({b \in used : key(b) < key(a)}) + 1
    IN /\ heap' = [n \in Addrs |->
                     IF \E a \in used : at(a) = n
                     THEN hp[CHOOSE a \in used : at(a) = n]
                     ELSE FreeCell]
       /\ mpFillGradientAttribute' =
            [h \in Handles |-> [mp[h] EXCEPT !.pimpl = at(@)]]
       /\ SINGLETON' = at(sing)

\* a plausible slip: SINGLETON not declared static, built anew at each call
TheGlobalDefaultNotStatic(hp, sing) ==
    LET a == FreshAddr(hp) IN
    [heap |-> [hp EXCEPT ![a] = Cell(ImpDefault)], sing |-> a]

\* lines 194-198: theGlobalDefault(); the static is constructed by the
\* first call that reaches it
TheGlobalDefault(hp, sing) ==
    IF sing # NoAddr THEN [heap |-> hp, sing |-> sing]
    ELSE LET a == FreshAddr(hp) IN
         [heap |-> [hp EXCEPT ![a] = Cell(ImpDefault)], sing |-> a]

\* line 229: same_object, p the handle's pointer, sing theGlobalDefault()'s
isDefault(p, sing) == p = sing

\* cow_wrapper operator== : the same object, or equal values
CowEquals(p, q, hp) == p = q \/ ImpEquals(hp[p].value, hp[q].value)

\* a plausible slip: the identity test of tdf#87509 left out
AttrEqualsByValue(p, q, hp, sing) == CowEquals(q, p, hp)

\* lines 241-248: FillGradientAttribute::operator==, p being *this and q
\* rCandidate
AttrEquals(p, q, hp, sing) ==
    IF isDefault(q, sing) # isDefault(p, sing) THEN FALSE
    ELSE CowEquals(q, p, hp)

\* the comparison dereferences no null pointer
EqualsDefined(p, q, sing) ==
    \/ p # NoAddr /\ q # NoAddr
    \/ p = q
    \/ isDefault(q, sing) # isDefault(p, sing)

Unborn == [alive |-> FALSE, pimpl |-> NoAddr]

Holding(a) == [alive |-> TRUE, pimpl |-> a]

\* the arguments of an explicit construction that match the default's fields
BaseArgs ==
    [eStyle |-> "Linear", fBorder |-> 0, fOffsetX |-> 0, fOffsetY |-> 0,
     fAngle |-> 0, rStartColor |-> "black", rEndColor |-> "black",
     pColorSteps |-> Null, nSteps |-> 0]

\* SpecAttr's callers: BaseArgs, and BaseArgs with one argument changed
AttrArgs ==
    {BaseArgs,
     [BaseArgs EXCEPT !.eStyle = "Radial"],
     [BaseArgs EXCEPT !.fBorder = 1],
     [BaseArgs EXCEPT !.fOffsetX = 1],
     [BaseArgs EXCEPT !.fOffsetY = 1],
     [BaseArgs EXCEPT !.fAngle = 1],
     [BaseArgs EXCEPT !.nSteps = 1],
     [BaseArgs EXCEPT !.rStartColor = "red"],
     [BaseArgs EXCEPT !.rEndColor = "red"],
     [BaseArgs EXCEPT !.pColorSteps = PointerTo(<<ColorStep(3, "red")>>)]}

\* SpecPair's callers: raw stops drawn from three stops, two of them tied
\* with different colours, the third within epsilon of both
MaxPairRaw == 2

PairStops == {ColorStep(2, "red"), ColorStep(3, "black"), ColorStep(3, "red")}

PairArgs ==
    {[BaseArgs EXCEPT !.fBorder = b, !.rStartColor = s, !.pColorSteps = p] :
        b \in {0, 1}, s \in Colors,
        p \in {Null} \cup {PointerTo(l) :
                  l \in UNION {[1..n -> PairStops] : n \in 0..MaxPairRaw}}}

From(how, a) == [from |-> how, args |-> a]

NoCall == [op |-> "none", value |-> FALSE]

AttrIdle ==
    /\ heap = [a \in Addrs |-> FreeCell]
    /\ SINGLETON = NoAddr
    /\ mpFillGradientAttribute = [h \in Handles |-> Unborn]
    /\ ret = NoCall
    /\ origin = [h \in Handles |-> From("unborn", BaseArgs)]

\* lines 216-219
DefaultConstruct(h) ==
    /\ ~mpFillGradientAttribute[h].alive
    /\ LET g == TheGlobalDefault(heap, SINGLETON) IN
       Settle(g.heap,
              [mpFillGradientAttribute EXCEPT ![h] = Holding(g.sing)],
              g.sing)
    /\ origin' = [origin EXCEPT ![h] = From("default", BaseArgs)]
    /\ ret' = NoCall
    /\ UNCHANGED <<sortTies, ctorVars, onceVars>>

\* lines 201-214
ExplicitConstruct(h, a) ==
    /\ ~mpFillGradientAttribute[h].alive
    /\ LET p == FreshAddr(heap) IN
       Settle([heap EXCEPT ![p] = Cell(ImpExplicit(a, sortTies))],
              [mpFillGradientAttribute EXCEPT ![h] = Holding(p)],
              SINGLETON)
    /\ origin' = [origin EXCEPT ![h] = From("explicit", a)]
    /\ ret' = NoCall
    /\ UNCHANGED <<sortTies, ctorVars, onceVars>>

\* line 221: the copy shares the source's implementation
CopyConstruct(h, s) ==
    /\ ~mpFillGradientAttribute[h].alive
    /\ mpFillGradientAttribute[s].alive
    /\ mpFillGradientAttribute[s].pimpl # NoAddr
    /\ Settle(heap,
              [mpFillGradientAttribute EXCEPT ![h] = mpFillGradientAttribute[s]],
              SINGLETON)
    /\ origin' = [origin EXCEPT ![h] = origin[s]]
    /\ ret' = NoCall
    /\ UNCHANGED <<sortTies, ctorVars, onceVars>>

\* line 223: the new handle takes the implementation, the source is left
\* holding none
MoveConstruct(h, s) ==
    /\ ~mpFillGradientAttribute[h].alive
    /\ mpFillGradientAttribute[s].alive
    /\ Settle(heap,
              [mpFillGradientAttribute EXCEPT ![h] = mpFillGradientAttribute[s],
                                              ![s] = Holding(NoAddr)],
              SINGLETON)
    /\ origin' = [origin EXCEPT ![h] = origin[s],
                                ![s] = From("moved", BaseArgs)]
    /\ ret' = NoCall
    /\ UNCHANGED <<sortTies, ctorVars, onceVars>>

\* line 225
Destroy(h) ==
    /\ mpFillGradientAttribute[h].alive
    /\ Settle(heap, [mpFillGradientAttribute EXCEPT ![h] = Unborn], SINGLETON)
    /\ origin' = [origin EXCEPT ![h] = From("unborn", BaseArgs)]
    /\ ret' = NoCall
    /\ UNCHANGED <<sortTies, ctorVars, onceVars>>

\* line 237
CopyAssign(h, s) ==
    /\ mpFillGradientAttribute[h].alive
    /\ mpFillGradientAttribute[s].alive
    /\ mpFillGradientAttribute[s].pimpl # NoAddr
    /\ Settle(heap,
              [mpFillGradientAttribute EXCEPT ![h] = mpFillGradientAttribute[s]],
              SINGLETON)
    /\ origin' = [origin EXCEPT ![h] = origin[s]]
    /\ ret' = NoCall
    /\ UNCHANGED <<sortTies, ctorVars, onceVars>>

\* line 239: release, take the source's pointer, null the source (a
\* self-move leaves the handle holding nothing)
MoveAssign(h, s) ==
    /\ mpFillGradientAttribute[h].alive
    /\ mpFillGradientAttribute[s].alive
    /\ Settle(heap,
              [mpFillGradientAttribute EXCEPT ![h] = mpFillGradientAttribute[s],
                                              ![s] = Holding(NoAddr)],
              SINGLETON)
    /\ origin' = [origin EXCEPT ![h] = origin[s],
                                ![s] = From("moved", BaseArgs)]
    /\ ret' = NoCall
    /\ UNCHANGED <<sortTies, ctorVars, onceVars>>

\* lines 227-230
CallIsDefault(h) ==
    /\ mpFillGradientAttribute[h].alive
    /\ LET g == TheGlobalDefault(heap, SINGLETON) IN
       /\ Settle(g.heap, mpFillGradientAttribute, g.sing)
       /\ ret' = [op |-> "isDefault",
                  value |-> isDefault(mpFillGradientAttribute[h].pimpl, g.sing)]
    /\ UNCHANGED <<origin, sortTies, ctorVars, onceVars>>

\* lines 241-248, called as a == b
CallEquals(a, b) ==
    /\ mpFillGradientAttribute[a].alive
    /\ mpFillGradientAttribute[b].alive
    /\ LET g == TheGlobalDefault(heap, SINGLETON)
           p == mpFillGradientAttribute[a].pimpl
           q == mpFillGradientAttribute[b].pimpl
       IN /\ EqualsDefined(p, q, g.sing)
          /\ Settle(g.heap, mpFillGradientAttribute, g.sing)
          /\ ret' = [op |-> "==", value |-> AttrEquals(p, q, g.heap, g.sing)]
    /\ UNCHANGED <<origin, sortTies, ctorVars, onceVars>>

(* ------------- the first calls of the default constructor ------------- *)

\* threads that call FillGradientAttribute() at once
NumThreads == 3

Threads == 1..NumThreads

\* a plausible slip: a static that is not initialized thread-safely (the
\* guard is tested, never waited on)
GuardAcquireUnsafe(g) == IF g = "done" THEN "skip" ELSE "enter"

\* line 196: what a thread reaching the declaration of the static does.
\* The language runs the initializer of a function-local static once:
\* a thread that finds it under way waits for it to complete.
GuardAcquire(g) ==
    IF g = "done" THEN "skip"
    ELSE IF g = "running" THEN "wait"
    ELSE "enter"

\* what a reader finds behind the static's pointer
Observe(p, mem) ==
    IF p = NoAddr THEN "unset"
    ELSE IF mem[p] = ImpDefault THEN "complete"
    ELSE "partial"

NotSeen == [atEntry |-> "none", object |-> "none"]

OnceVarsAt(where) ==
    /\ guard = "uninit"
    /\ staticPimpl = NoAddr
    /\ staticImpl = <<>>
    /\ tpc = [t \in Threads |-> where]
    /\ tHandle = [t \in Threads |-> NoAddr]
    /\ tSeen = [t \in Threads |-> NotSeen]
    /\ nConstructed = 0

\* no thread is running the default constructor
OnceIdle == OnceVarsAt("idle")

\* line 217 calls theGlobalDefault(); line 196, the inline test of the guard
CallDefault(t) ==
    /\ tpc[t] = "start"
    /\ tSeen' = [tSeen EXCEPT ![t].atEntry = guard]
    /\ tpc' = [tpc EXCEPT ![t] = IF guard = "done" THEN "copy" ELSE "acquire"]
    /\ UNCHANGED <<guard, staticPimpl, staticImpl, tHandle, nConstructed>>
    /\ UNCHANGED <<sortTies, ctorVars, attrVars>>

\* line 196: the guard is taken by one thread; the others wait until the
\* static is constructed and then pass
AcquireGuard(t) ==
    /\ tpc[t] = "acquire"
    /\ GuardAcquire(guard) # "wait"
    /\ IF GuardAcquire(guard) = "enter"
       THEN guard' = "running" /\ tpc' = [tpc EXCEPT ![t] = "new"]
       ELSE guard' = guard /\ tpc' = [tpc EXCEPT ![t] = "copy"]
    /\ UNCHANGED <<staticPimpl, staticImpl, tHandle, tSeen, nConstructed>>
    /\ UNCHANGED <<sortTies, ctorVars, attrVars>>

\* lines 149-156: the implementation is allocated and its members
\* initialized, maColorSteps empty
ConstructMembers(t) ==
    /\ tpc[t] = "new"
    /\ staticImpl' = Append(staticImpl, ImpValue("Linear", 0, 0, 0, 0, <<>>, 0))
    /\ tHandle' = [tHandle EXCEPT ![t] = Len(staticImpl) + 1]
    /\ nConstructed' = nConstructed + 1
    /\ tpc' = [tpc EXCEPT ![t] = "body"]
    /\ UNCHANGED <<guard, staticPimpl, tSeen>>
    /\ UNCHANGED <<sortTies, ctorVars, attrVars>>

\* line 159
EmplaceFallback(t) ==
    /\ tpc[t] = "body"
    /\ staticImpl' = [staticImpl EXCEPT ![tHandle[t]].maColorSteps =
                         Append(@, ColorStep(0, "black"))]
    /\ tpc' = [tpc EXCEPT ![t] = "publish"]
    /\ UNCHANGED <<guard, staticPimpl, tHandle, tSeen, nConstructed>>
    /\ UNCHANGED <<sortTies, ctorVars, attrVars>>

\* line 196: SINGLETON's pointer is set to the implementation built
PublishStatic(t) ==
    /\ tpc[t] = "publish"
    /\ staticPimpl' = tHandle[t]
    /\ tHandle' = [tHandle EXCEPT ![t] = NoAddr]
    /\ tpc' = [tpc EXCEPT ![t] = "release"]
    /\ UNCHANGED <<guard, staticImpl, tSeen, nConstructed>>
    /\ UNCHANGED <<sortTies, ctorVars, attrVars>>

\* line 196: the initialization is complete, the guard is released
ReleaseGuard(t) ==
    /\ tpc[t] = "release"
    /\ guard' = "done"
    /\ tpc' = [tpc EXCEPT ![t] = "copy"]
    /\ UNCHANGED <<staticPimpl, staticImpl, tHandle, tSeen, nConstructed>>
    /\ UNCHANGED <<sortTies, ctorVars, attrVars>>

\* line 217: the handle is copied from the static
CopyFromStatic(t) ==
    /\ tpc[t] = "copy"
    /\ tHandle' = [tHandle EXCEPT ![t] = staticPimpl]
    /\ tSeen' = [tSeen EXCEPT ![t].object = Observe(staticPimpl, staticImpl)]
    /\ tpc' = [tpc EXCEPT ![t] = "held"]
    /\ UNCHANGED <<guard, staticPimpl, staticImpl, nConstructed>>
    /\ UNCHANGED <<sortTies, ctorVars, attrVars>>

(* --------------------------- specifications --------------------------- *)

Init == sortTies \in TiePolicies /\ CtorEntry /\ AttrIdle /\ OnceIdle

Next == EmplaceStart \/ IntegrateSteps \/ LoopStep \/ FinishSteps \/ NoSteps

Spec == Init /\ [][Next]_vars

InitAttr == sortTies = "listed" /\ CtorIdle /\ AttrIdle /\ OnceIdle

NextAttr ==
    \/ \E h \in Handles : DefaultConstruct(h)
    \/ \E h \in Handles, a \in AttrArgs : ExplicitConstruct(h, a)
    \/ \E h, s \in Handles : CopyConstruct(h, s)
    \/ \E h, s \in Handles : MoveConstruct(h, s)
    \/ \E h \in Handles : Destroy(h)
    \/ \E h, s \in Handles : CopyAssign(h, s)
    \/ \E h, s \in Handles : MoveAssign(h, s)
    \/ \E h \in Handles : CallIsDefault(h)
    \/ \E a, b \in Handles : CallEquals(a, b)

SpecAttr == InitAttr /\ [][NextAttr]_vars

PairHandles == {1, 2}

InitPair == sortTies \in TiePolicies /\ CtorIdle /\ AttrIdle /\ OnceIdle

NextPair ==
    \/ \E h \in PairHandles, a \in PairArgs : ExplicitConstruct(h, a)
    \/ \E a, b \in PairHandles : a # b /\ CallEquals(a, b)

SpecPair == InitPair /\ [][NextPair]_vars

InitOnce == sortTies = "listed" /\ CtorIdle /\ AttrIdle /\ OnceVarsAt("start")

NextOnce ==
    \E t \in Threads :
        \/ CallDefault(t)
        \/ AcquireGuard(t)
        \/ ConstructMembers(t)
        \/ EmplaceFallback(t)
        \/ PublishStatic(t)
        \/ ReleaseGuard(t)
        \/ CopyFromStatic(t)

SpecInit == InitOnce /\ [][NextOnce]_vars

(* ------------------- properties of the constructor -------------------- *)

Done == pc = "done"

\* the raw stops the caller listed (none behind a null pointer)
Raw == pColorSteps.steps

\* an offset strictly inside (0,1): neither <= 0 nor >= 1 within epsilon
Inside(o) == ~lessOrEqual(o, 0) /\ ~moreOrEqual(o, One)

InsideOnly(s) == SelectSeq(s, LAMBDA x : Inside(x.offset))

InResult(x) == \E k \in 2..(Len(maColorSteps) - 1) : maColorSteps[k] = x

\* reference de-duplication: drop a stop whose offset equals, within
\* epsilon, the offset of the stop kept last
RECURSIVE KeptAfter(_, _)
KeptAfter(s, lastOffset) ==
    IF s = <<>> THEN <<>>
    ELSE IF equal(Head(s).offset, lastOffset) THEN KeptAfter(Tail(s), lastOffset)
    ELSE <<Head(s)>> \o KeptAfter(Tail(s), Head(s).offset)

\* the raw stops that survive filtering, in the order the build sorts them
Survivors == KeptAfter(InsideOnly(StdSort(Raw, sortTies)), 0)

\* C1: the stored sequence is non-empty and its offsets are strictly
\* ascending, each more than epsilon above the one before it.
C1_StrictlyAscending ==
    Done => /\ Len(maColorSteps) >= 1
            /\ \A i \in 2..Len(maColorSteps) :
                 /\ maColorSteps[i - 1].offset < maColorSteps[i].offset
                 /\ ~equal(maColorSteps[i - 1].offset, maColorSteps[i].offset)

\* an unsorted list with a duplicate or out-of-range offset that still
\* leaves two interior stops
C1_Witness ==
    /\ Done
    /\ Len(maColorSteps) = 4
    /\ \E i, j \in DOMAIN Raw : i < j /\ Raw[i].offset > Raw[j].offset
    /\ \E i, j \in DOMAIN Raw :
         i # j /\ (Raw[i].offset = Raw[j].offset \/ ~Inside(Raw[i].offset))

\* C2: the first stored stop is (0.0, start colour), whatever raw stop
\* claims an offset <= 0.
C2_FirstIsStart ==
    Done => maColorSteps[1] = ColorStep(0, rStartColor)

C2_Witness ==
    /\ Done
    /\ \E i \in DOMAIN Raw :
         lessOrEqual(Raw[i].offset, 0) /\ Raw[i].color # rStartColor

\* C3: a stored sequence of two or more stops ends in (1.0, end colour).
C3_LastIsEnd ==
    (Done /\ Len(maColorSteps) >= 2) =>
        maColorSteps[Len(maColorSteps)] = ColorStep(One, rEndColor)

\* start = end, an interior stop survives, and a raw stop claims offset 1
C3_Witness ==
    /\ Done
    /\ Len(maColorSteps) >= 3
    /\ rStartColor = rEndColor
    /\ \E i \in DOMAIN Raw :
         moreOrEqual(Raw[i].offset, One) /\ Raw[i].color # rEndColor

\* C4: the sequence is the single stop (0.0, start colour), and
\* hasSingleColor() is true, exactly when start = end and every surviving
\* raw stop has the start colour; otherwise it has at least two stops, not
\* all of one colour.
C4_FlatCollapse ==
    Done =>
      LET flat == /\ rStartColor = rEndColor
                  /\ \A i \in DOMAIN Survivors : Survivors[i].color = rStartColor
      IN /\ (maColorSteps = <<ColorStep(0, rStartColor)>>) <=> flat
         /\ hasSingleColor(maColorSteps) <=> flat
         /\ ~flat => /\ Len(maColorSteps) >= 2
                     /\ \E i \in DOMAIN maColorSteps :
                          maColorSteps[i].color # maColorSteps[1].color

\* a collapse that swallowed surviving raw stops
C4_Witness ==
    /\ Done
    /\ Survivors # <<>>
    /\ hasSingleColor(maColorSteps)

RefPipeline(start, end, sortedRest) ==
    LET kept == KeptAfter(sortedRest, 0) IN
    IF start = end /\ \A i \in DOMAIN kept : kept[i].color = start
    THEN <<ColorStep(0, start)>>
    ELSE <<ColorStep(0, start)>> \o kept \o <<ColorStep(One, end)>>

Perms(n) == {p \in [1..n -> 1..n] : \A i, j \in 1..n : i # j => p[i] # p[j]}

\* every arrangement of s that is sorted by offset
SortedOrders(s) ==
    {t \in {[i \in 1..Len(s) |-> s[p[i]]] : p \in Perms(Len(s))} :
        \A i \in 1..(Len(s) - 1) : t[i].offset <= t[i + 1].offset}

\* C10: the two-head compaction stores what the reference pipeline (filter,
\* sort by offset, drop duplicates of the last kept, collapse or append the
\* end) yields; every interior stop is a raw stop, and unless the sequence
\* collapsed every raw stop inside (0,1) is within epsilon of a kept one.
C10_Refinement ==
    Done =>
      /\ maColorSteps \in {RefPipeline(rStartColor, rEndColor, t) :
                             t \in SortedOrders(InsideOnly(Raw))}
      /\ \A k \in 2..(Len(maColorSteps) - 1) :
           /\ \E i \in DOMAIN Raw : Raw[i] = maColorSteps[k]
           /\ Inside(maColorSteps[k].offset)
      /\ ~hasSingleColor(maColorSteps) =>
           \A i \in DOMAIN Raw :
             Inside(Raw[i].offset) =>
               \E k \in 2..(Len(maColorSteps) - 1) :
                 equal(maColorSteps[k].offset, Raw[i].offset)

\* the heads diverged: a dropped stop lies before a kept one
C10_Witness ==
    /\ Done
    /\ Len(maColorSteps) >= 3
    /\ \E i, j \in DOMAIN Raw :
         /\ ~Inside(Raw[i].offset) /\ Raw[i].offset < Raw[j].offset
         /\ InResult(Raw[j])
    /\ \E i, j \in DOMAIN Raw :
         /\ i # j /\ InResult(Raw[i]) /\ ~InResult(Raw[j])
         /\ Raw[i].offset # Raw[j].offset
         /\ equal(Raw[i].offset, Raw[j].offset)

(* ---------------------- properties of the handles --------------------- *)

HoldsValue(h) ==
    mpFillGradientAttribute[h].alive /\ mpFillGradientAttribute[h].pimpl # NoAddr

ValueOf(h) == heap[mpFillGradientAttribute[h].pimpl].value

\* what h.isDefault() returns if called now
IsDefaultNow(h) ==
    isDefault(mpFillGradientAttribute[h].pimpl,
              TheGlobalDefault(heap, SINGLETON).sing)

\* what a == b returns if called now
EqualsNow(a, b) ==
    LET g == TheGlobalDefault(heap, SINGLETON) IN
    AttrEquals(mpFillGradientAttribute[a].pimpl,
               mpFillGradientAttribute[b].pimpl, g.heap, g.sing)

FromDefault(h) == origin[h].from = "default"

FromExplicit(h) == origin[h].from = "explicit"

\* C5: operator== is true exactly when both operands are the default
\* instance, or neither is and all seven members are equal; a default and a
\* non-default operand are unequal even with equal members.
C5_EqualityContract ==
    \A a, b \in Handles :
      (HoldsValue(a) /\ HoldsValue(b)) =>
        (EqualsNow(a, b) <=>
           \/ FromDefault(a) /\ FromDefault(b)
           \/ /\ FromExplicit(a) /\ FromExplicit(b)
              /\ ValueOf(a) = ValueOf(b))

\* the default instance compared with an explicit one of the same members
C5_Witness ==
    \E a, b \in Handles :
      /\ FromDefault(a) /\ FromExplicit(b)
      /\ ValueOf(a) = ValueOf(b)
      /\ ret = [op |-> "==", value |-> FALSE]

\* C6: a handle that holds what the default constructor returned, directly
\* or through copies, assignments and moves, reports isDefault() and equals
\* every other such handle; one that holds an explicitly constructed
\* instance does not report isDefault().
C6_DefaultIdentity ==
    \A h \in Handles :
      /\ FromDefault(h) =>
           /\ IsDefaultNow(h)
           /\ \A k \in Handles : FromDefault(k) => EqualsNow(h, k)
      /\ FromExplicit(h) => ~IsDefaultNow(h)

\* one handle was moved from, another holds the default instance and
\* isDefault() has just returned true
C6_Witness ==
    \E h, k \in Handles :
      /\ origin[h].from = "moved"
      /\ FromDefault(k)
      /\ ret = [op |-> "isDefault", value |-> TRUE]

RawSet(a) == {a.pColorSteps.steps[i] : i \in DOMAIN a.pColorSteps.steps}

\* two calls with the same parameters, colours and set of raw stops
SameCall(x, y) ==
    /\ [x EXCEPT !.pColorSteps = Null] = [y EXCEPT !.pColorSteps = Null]
    /\ RawSet(x) = RawSet(y)

\* no two raw stops strictly inside (0,1) share an offset and differ in colour
Untied(S) ==
    \A x, y \in S : (Inside(x.offset) /\ x.offset = y.offset) => x.color = y.color

SameResult(a, b) ==
    /\ StepsEqual(ValueOf(a).maColorSteps, ValueOf(b).maColorSteps)
    /\ EqualsNow(a, b)

\* C7 as stated: the same parameters, colours and SET of raw stops give
\* equal stop sequences and equal instances, whatever the order of the lists.
C7_SameSetSameResult ==
    \A a, b \in PairHandles :
      (FromExplicit(a) /\ FromExplicit(b) /\ SameCall(origin[a].args, origin[b].args))
        => SameResult(a, b)

\* C7 amended: the order of the raw stops does not matter provided no two of
\* them, strictly inside (0,1), share an offset and differ in colour; when
\* some do, the instances are equal if the lists are in the same order.
C7_SameUntiedSetSameResult ==
    \A a, b \in PairHandles :
      (/\ FromExplicit(a) /\ FromExplicit(b)
       /\ SameCall(origin[a].args, origin[b].args)
       /\ \/ Untied(RawSet(origin[a].args))
          \/ origin[a].args.pColorSteps.steps = origin[b].args.pColorSteps.steps)
        => SameResult(a, b)

\* the same two stops listed in opposite orders, compared equal
C7_Witness ==
    \E a, b \in PairHandles :
      /\ FromExplicit(a) /\ FromExplicit(b)
      /\ SameCall(origin[a].args, origin[b].args)
      /\ Len(origin[a].args.pColorSteps.steps) = 2
      /\ Len(origin[b].args.pColorSteps.steps) = 2
      /\ origin[a].args.pColorSteps.steps[1] = origin[b].args.pColorSteps.steps[2]
      /\ origin[a].args.pColorSteps.steps[2] = origin[b].args.pColorSteps.steps[1]
      /\ origin[a].args.pColorSteps.steps[1] # origin[a].args.pColorSteps.steps[2]
      /\ Len(ValueOf(a).maColorSteps) = 3
      /\ ret = [op |-> "==", value |-> TRUE]

(* ----------------- properties of the static's first use --------------- *)

====
